---- MODULE Spec2Model ----
(***************************************************************************)
(* Model of src/selenium/google_maps_scraper.py: scrape_google_maps and    *)
(* the helpers it calls.  The browser and the page are the environment:    *)
(* `feed` is the list of place anchors the page currently renders, and     *)
(* every document a navigation presents is drawn from a bounded set.       *)
(*                                                                         *)
(* An anchor is an integer: a positive number is the href of a place, 0    *)
(* is an anchor whose href is None or empty, -1 is an anchor that has gone *)
(* stale by the time its href is read.                                     *)
(***************************************************************************)
EXTENDS Integers, Sequences, FiniteSets

(* ---------------- program constants ---------------- *)
MAX_RESULTS == 60
StallLimit == 5
NumSelectors == 4
LIMIT == 50
AutosaveEvery == 10

(* ---------------- bounds of the model ---------------- *)
MaxCards == 5
MaxIter == 7
MaxTarget == 2
NumUrls == 3
MaxFeed == 5
RunFeed == 2
MaxCand == 5

NoHref == 0
StaleAnchor == 0 - 1
NoRating == 0 - 1
NoSave == 0 - 1

VARIABLES
    pc, driver, exc, max_results,
    sel, search_box,
    feed,
    last_count, stall_counter, current_count,
    all_anchors, seen, place_urls,
    idx, restaurant, results,
    iters, scrolls, prevCount, nonGrow, targetSeen, steady,
    collections, firstUrls,
    navigated, skipped, nameTimedOut, navTimeouts, staleItems, docs,
    quits, lateCmd,
    sorted_data, report, raw_text, parsed,
    setup_failure,
    rows, seen_urls, page_num, items, item_i, added, autosaves, final_save

ctlVars == <<pc, driver, exc, max_results>>
setupVars == <<sel, search_box>>
loopVars == <<last_count, stall_counter, current_count>>
loopGhost == <<iters, scrolls, prevCount, nonGrow, targetSeen, steady>>
collectVars == <<all_anchors, seen, place_urls>>
collectGhost == <<collections, firstUrls>>
crawlVars == <<idx, restaurant, results>>
crawlGhost == <<navigated, skipped, nameTimedOut, navTimeouts, staleItems,
               docs>>
sessionGhost == <<quits, lateCmd>>
mainVars == <<sorted_data, report>>
parseVars == <<raw_text, parsed>>
mechtaVars == <<rows, seen_urls, page_num, items, item_i, added, autosaves,
               final_save>>
mapsVars == <<max_results, setupVars, feed, loopVars, loopGhost, collectVars,
             collectGhost, crawlVars, crawlGhost, mainVars, parseVars,
             setup_failure>>

vars == <<pc, driver, exc, max_results, sel, search_box, feed,
          last_count, stall_counter, current_count,
          all_anchors, seen, place_urls, idx, restaurant, results,
          iters, scrolls, prevCount, nonGrow, targetSeen, steady,
          collections, firstUrls, navigated, skipped, nameTimedOut,
          navTimeouts, staleItems, docs, quits, lateCmd,
          sorted_data, report, raw_text, parsed, setup_failure,
          rows, seen_urls, page_num, items, item_i, added, autosaves,
          final_save>>

(* ---------------- helpers ---------------- *)
Min(a, b) == IF a < b THEN a ELSE b

Range(s) == {s[i] : i \in 1..Len(s)}

SeqsUpTo(S, n) == UNION {[1..k -> S] : k \in 0..n}

(* the list kept whole *)
SliceNone(s, n) == s

(* s[:n] for n >= 0 *)
Slice(s, n) == SubSeq(s, 1, Min(n, Len(s)))

Restaurant ==
    [name |-> "N/A", address |-> "N/A", phone |-> "N/A", rating |-> NoRating,
     review_count |-> 0, website |-> "N/A", cuisine |-> "N/A", maps_url |-> 0]

(* ---------------- inputs ---------------- *)
Targets == (0..MaxTarget) \cup {MAX_RESULTS}

AnchorValues == {StaleAnchor, NoHref} \cup (1..NumUrls)

(* feeds of n cards with pairwise distinct hrefs *)
DistinctFeed(n) == [i \in 1..n |-> i]
CountFeeds == {DistinctFeed(n) : n \in 0..MaxCards}

(* feeds with repeated, empty and stale anchors *)
AnyFeeds == SeqsUpTo(AnchorValues, MaxFeed)

(* the feeds of a whole run: short, with repeated and stale anchors *)
RunFeeds == SeqsUpTo({StaleAnchor, 1, 2}, RunFeed)

(* ---------------- a driver command ---------------- *)
(* lateCmd records a command sent to a session that is not open *)
Cmd == lateCmd' = (lateCmd \/ driver # "open")

(* ---------------- build_driver ---------------- *)
(* webdriver.Chrome(options): the session starts, or the call raises *)
BuildChrome ==
    /\ pc = "chrome"
    /\ \E started \in BOOLEAN :
          IF started
          THEN driver' = "open" /\ pc' = "stealth" /\ exc' = exc
          ELSE driver' = driver /\ pc' = "raised" /\ exc' = "other"
    /\ UNCHANGED <<mechtaVars, mainVars, parseVars, setup_failure,
                   max_results, setupVars, feed, loopVars, loopGhost,
                   collectVars, collectGhost, crawlVars, crawlGhost,
                   sessionGhost>>

(* driver.execute_script(...) of build_driver, issued before the try block
   of scrape_google_maps is entered *)
StealthScript ==
    /\ pc = "stealth"
    /\ Cmd
    /\ \E ok \in BOOLEAN :
          IF ok
          THEN pc' = "open_maps" /\ exc' = exc
          ELSE pc' = "raised" /\ exc' = "other"
    /\ UNCHANGED <<mechtaVars, mainVars, parseVars, setup_failure,
                   driver, max_results, setupVars, feed, loopVars, loopGhost,
                   collectVars, collectGhost, crawlVars, crawlGhost, quits>>

(* ---------------- steps 1 and 2: open the page, search ---------------- *)
OpenMaps ==
    /\ pc = "open_maps"
    /\ Cmd
    /\ pc' = "consent"
    /\ UNCHANGED <<mechtaVars, mainVars, parseVars, setup_failure,
                   driver, exc, max_results, setupVars, feed, loopVars,
                   loopGhost, collectVars, collectGhost, crawlVars,
                   crawlGhost, quits>>

Consent ==
    /\ pc = "consent"
    /\ Cmd
    /\ pc' = "search_box"
    /\ sel' = 1
    /\ search_box' = FALSE
    /\ UNCHANGED <<mechtaVars, mainVars, parseVars, setup_failure,
                   driver, exc, max_results, feed, loopVars, loopGhost,
                   collectVars, collectGhost, crawlVars, crawlGhost, quits>>

(* one pass of the selector loop *)
TrySelector ==
    /\ pc = "search_box"
    /\ Cmd
    /\ \E found \in BOOLEAN :
          IF found
          THEN search_box' = TRUE /\ sel' = sel /\ pc' = "box_check"
          ELSE /\ search_box' = search_box
               /\ sel' = sel + 1
               /\ pc' = IF sel = NumSelectors THEN "box_check" ELSE "search_box"
    /\ UNCHANGED <<mechtaVars, mainVars, parseVars, setup_failure,
                   driver, exc, max_results, feed, loopVars, loopGhost,
                   collectVars, collectGhost, crawlVars, crawlGhost, quits>>

(* if search_box is None: screenshot, return results *)
BoxCheck ==
    /\ pc = "box_check"
    /\ IF search_box
       THEN pc' = "submit" /\ lateCmd' = lateCmd
            /\ setup_failure' = setup_failure
       ELSE pc' = "finally" /\ Cmd /\ setup_failure' = "no_box"
    /\ UNCHANGED <<mechtaVars, mainVars, parseVars, driver, exc, max_results, setupVars, feed, loopVars,
                   loopGhost, collectVars, collectGhost, crawlVars,
                   crawlGhost, quits>>

(* send_keys(query), ENTER: the page renders some feed *)
Submit(F) ==
    /\ pc = "submit"
    /\ Cmd
    /\ feed' \in F
    /\ pc' = "panel"
    /\ UNCHANGED <<mechtaVars, mainVars, parseVars, setup_failure,
                   driver, exc, max_results, setupVars, loopVars, loopGhost,
                   collectVars, collectGhost, crawlVars, crawlGhost, quits>>

(* the handler going on into the loop instead of returning *)
PanelMissingGoesOn ==
    pc' = "while" /\ last_count' = 0 /\ stall_counter' = 0

(* except TimeoutException: log.error(...); return results *)
PanelMissing == pc' = "finally" /\ UNCHANGED <<last_count, stall_counter>>

(* wait for div[role="feed"]; on TimeoutException return results;
   otherwise last_count = 0, stall_counter = 0 *)
Panel ==
    /\ pc = "panel"
    /\ Cmd
    /\ \E found \in BOOLEAN :
          IF found
          THEN /\ pc' = "while" /\ last_count' = 0 /\ stall_counter' = 0
               /\ setup_failure' = setup_failure
          ELSE PanelMissing /\ setup_failure' = "no_panel"
    /\ UNCHANGED <<mechtaVars, mainVars, parseVars, driver, exc, max_results, setupVars, feed, current_count,
                   loopGhost, collectVars, collectGhost, crawlVars,
                   crawlGhost, quits>>

(* ---------------- step 3: the scroll loop ---------------- *)
Sat(n) == Min(n + 1, MaxIter)

(* the loop test with the stall limit off by one *)
LoopConditionOffByOne ==
    Len(results) < max_results /\ stall_counter <= StallLimit

(* while len(results) < max_results and stall_counter < 5 *)
LoopCondition == Len(results) < max_results /\ stall_counter < StallLimit

WhileTest ==
    /\ pc = "while"
    /\ pc' = IF LoopCondition THEN "cards" ELSE "collect"
    /\ UNCHANGED <<mechtaVars, mainVars, parseVars, setup_failure,
                   driver, exc, max_results, setupVars, feed, loopVars,
                   loopGhost, collectVars, collectGhost, crawlVars,
                   crawlGhost, sessionGhost>>

(* cards = driver.find_elements(...); current_count = len(cards) *)
Cards ==
    /\ pc = "cards"
    /\ Cmd
    /\ current_count' = Len(feed)
    /\ iters' = Sat(iters)
    /\ prevCount' = Len(feed)
    /\ nonGrow' = IF Len(feed) > prevCount THEN 0 ELSE nonGrow + 1
    /\ targetSeen' = (targetSeen \/ Len(feed) >= max_results)
    /\ steady' = IF iters = 0 \/ steady = Len(feed) THEN Len(feed) ELSE 0 - 1
    /\ pc' = "scroll"
    /\ UNCHANGED <<mechtaVars, mainVars, parseVars, setup_failure,
                   driver, exc, max_results, setupVars, feed, last_count,
                   stall_counter, scrolls, collectVars, collectGhost,
                   crawlVars, crawlGhost, quits>>

(* driver.execute_script("arguments[0].scrollTop += 1200;", panel); the page
   answers the scroll by rendering some feed *)
ScrollStep(F) ==
    /\ pc = "scroll"
    /\ Cmd
    /\ feed' \in F
    /\ scrolls' = Sat(scrolls)
    /\ pc' = "stall"
    /\ UNCHANGED <<mechtaVars, mainVars, parseVars, setup_failure,
                   driver, exc, max_results, setupVars, loopVars, iters,
                   prevCount, nonGrow, targetSeen, steady, collectVars,
                   collectGhost, crawlVars, crawlGhost, quits>>

(* if current_count == last_count: stall_counter += 1
   else: stall_counter = 0; last_count = current_count *)
Stalled(cur, last) == cur = last

StallUpdate ==
    /\ pc = "stall"
    /\ IF Stalled(current_count, last_count)
       THEN stall_counter' = stall_counter + 1 /\ last_count' = last_count
       ELSE stall_counter' = 0 /\ last_count' = current_count
    /\ pc' = "while"
    /\ UNCHANGED <<mechtaVars, mainVars, parseVars, setup_failure,
                   driver, exc, max_results, setupVars, feed, current_count,
                   loopGhost, collectVars, collectGhost, crawlVars,
                   crawlGhost, sessionGhost>>

(* ---------------- step 4: collect the place URLs ---------------- *)
(* place_urls = [] ; seen = set() *)
FreshUrls == <<>>

(* the seen set of the previous collection kept instead of a new one *)
KeptSeen == seen

FreshSeen == {}

(* the test without the membership check *)
IsNewHrefNoSeen(href, sn) == href # NoHref

(* if href and href not in seen *)
IsNewHref(href, sn) == href # NoHref /\ href \notin sn

(* for a in all_anchors: ... ; a stale anchor raises and is passed over *)
RECURSIVE CollectLoop(_, _, _, _)
CollectLoop(anchors, i, sn, urls) ==
    IF i > Len(anchors)
    THEN [seen |-> sn, urls |-> urls]
    ELSE IF anchors[i] # StaleAnchor /\ IsNewHref(anchors[i], sn)
         THEN CollectLoop(anchors, i + 1, sn \cup {anchors[i]},
                          Append(urls, anchors[i]))
         ELSE CollectLoop(anchors, i + 1, sn, urls)

(* the slice taken on the anchors, before the duplicates are dropped *)
CollectPlaceUrlsSliceFirst(anchors, n) ==
    LET r == CollectLoop(Slice(anchors, n), 1, FreshSeen, FreshUrls)
    IN  [seen |-> r.seen, urls |-> r.urls]

(* the for loop followed by place_urls = place_urls[:max_results] *)
CollectPlaceUrls(anchors, n) ==
    LET r == CollectLoop(anchors, 1, FreshSeen, FreshUrls)
    IN  [seen |-> r.seen, urls |-> Slice(r.urls, n)]

CollectBody ==
    /\ Cmd
    /\ all_anchors' = feed
    /\ seen' = CollectPlaceUrls(feed, max_results).seen
    /\ place_urls' = CollectPlaceUrls(feed, max_results).urls
    /\ collections' = collections + 1
    /\ firstUrls' = IF collections = 0
                    THEN CollectPlaceUrls(feed, max_results).urls
                    ELSE firstUrls

Collect ==
    /\ pc = "collect"
    /\ CollectBody
    /\ pc' = "for"
    /\ UNCHANGED <<mechtaVars, mainVars, parseVars, setup_failure,
                   driver, exc, max_results, setupVars, feed, loopVars,
                   loopGhost, crawlVars, crawlGhost, quits>>

(* the collection step run once more over the unchanged page, before the
   first candidate is visited *)
MaxCollect == 2
MaxSort == 3
MaxRec == 1
MaxText == 4
MaxOld == 1
MaxNew == 5
MaxPageNum == 12

CollectAgain ==
    /\ pc = "for"
    /\ idx = 0
    /\ collections < MaxCollect
    /\ CollectBody
    /\ UNCHANGED <<mechtaVars, mainVars, parseVars, setup_failure,
                   pc, driver, exc, max_results, setupVars, feed, loopVars,
                   loopGhost, crawlVars, crawlGhost, quits>>

(* ---------------- parsers ---------------- *)
(* a text is a sequence of one-character strings *)
Digits == {"0", "1", "2", "3", "4", "5", "6", "7", "8", "9"}

DigitVal(c) ==
    CASE c = "0" -> 0 [] c = "1" -> 1 [] c = "2" -> 2 [] c = "3" -> 3
      [] c = "4" -> 4 [] c = "5" -> 5 [] c = "6" -> 6 [] c = "7" -> 7
      [] c = "8" -> 8 [] c = "9" -> 9

IsDigit(c) == c \in Digits

(* int(digits) *)
RECURSIVE ToInt(_)
ToInt(ds) ==
    IF ds = <<>> THEN 0
    ELSE 10 * ToInt(SubSeq(ds, 1, Len(ds) - 1)) + DigitVal(ds[Len(ds)])

(* the first run of digits taken instead of all the digits *)
parse_review_count_first_run(raw) ==
    LET at == {i \in 1..Len(raw) : IsDigit(raw[i])}
        first == CHOOSE i \in at : \A j \in at : i <= j
        stop == {i \in first..Len(raw) : ~IsDigit(raw[i])}
        last == IF stop = {} THEN Len(raw)
                ELSE (CHOOSE i \in stop : \A j \in stop : i <= j) - 1
    IN  IF at = {} THEN 0 ELSE ToInt(SubSeq(raw, first, last))

(* digits = re.sub(r"[^\d]", "", raw); int(digits) if digits else 0 *)
parse_review_count(raw) ==
    LET digits == SelectSeq(raw, IsDigit)
    IN  IF digits # <<>> THEN ToInt(digits) ELSE 0

(* float(raw.replace(",", ".")), None on ValueError; the value is kept in
   hundredths, texts carry at most two fractional digits *)
parse_rating(raw) ==
    LET t == [i \in 1..Len(raw) |-> IF raw[i] = "," THEN "." ELSE raw[i]]
        dots == {i \in 1..Len(t) : t[i] = "."}
        wellFormed == /\ \A i \in 1..Len(t) : t[i] \in Digits \cup {"."}
                      /\ Cardinality(dots) <= 1
                      /\ \E i \in 1..Len(t) : t[i] \in Digits
        cut == IF dots = {} THEN Len(t) + 1 ELSE CHOOSE i \in dots : TRUE
        whole == SubSeq(t, 1, cut - 1)
        frac == SubSeq(t, cut + 1, Len(t))
    IN  IF ~wellFormed THEN NoRating
        ELSE 100 * ToInt(whole)
             + (IF Len(frac) = 0 THEN 0
                ELSE IF Len(frac) = 1 THEN 10 * ToInt(frac)
                ELSE ToInt(SubSeq(frac, 1, 2)))

(* the texts parse_review_count is applied to *)
ReviewChars == {"(", ",", "n", "0", "1", "2"}

ReviewTexts ==
    SeqsUpTo(ReviewChars, MaxText)
    \cup {<<"(", "1", ",", "2", "3", "4", ")">>,
          <<"n", "o", " ", "r", "e", "v", "i", "e", "w", "s">>}

(* ---------------- detail documents ---------------- *)
(* has: the optional elements the document presents; the two texts are read
   only when their element is present *)
FieldNames == {"rating", "reviews", "cuisine", "address", "phone", "website"}

FullDoc == [has |-> FieldNames, rating_text |-> <<"4", ".", "5">>,
            reviews_label |-> <<"(", "1", ",", "2", "3", "4", ")">>]
BareDoc == [has |-> {}, rating_text |-> <<>>, reviews_label |-> <<>>]
CrawlDocs == {FullDoc, BareDoc}

PlaceName == "Katz"

(* every layout of a detail page: each optional element present or not, a
   rating text that parses or not, a review label with digits or without *)
RecordRatings == {<<"4", ",", "5">>, <<"N", "e", "w">>}
RecordLabels == {<<"(", "1", "2", ")">>, <<"n", "o">>}

RecordDocs ==
    {[has |-> h,
      rating_text |-> IF "rating" \in h THEN rt ELSE <<>>,
      reviews_label |-> IF "reviews" \in h THEN rl ELSE <<>>] :
        h \in SUBSET FieldNames, rt \in RecordRatings, rl \in RecordLabels}

(* the rating and the review count read inside one try block: a missing
   rating element leaves the review count at its default too *)
ExtractedChained(r, d) ==
    [r EXCEPT
       !.rating = IF "rating" \in d.has THEN parse_rating(d.rating_text)
                  ELSE NoRating,
       !.review_count = IF "reviews" \in d.has /\ "rating" \in d.has
                        THEN parse_review_count(d.reviews_label) ELSE 0,
       !.cuisine = IF "cuisine" \in d.has THEN "Deli" ELSE "N/A",
       !.address = IF "address" \in d.has THEN "205 E Houston St" ELSE "N/A",
       !.phone = IF "phone" \in d.has THEN "+1 212" ELSE "N/A",
       !.website = IF "website" \in d.has THEN "katz.com" ELSE "N/A"]

(* the record after the six optional fields are extracted from document d *)
Extracted(r, d) ==
    [r EXCEPT
       !.rating = IF "rating" \in d.has THEN parse_rating(d.rating_text)
                  ELSE NoRating,
       !.review_count = IF "reviews" \in d.has
                        THEN parse_review_count(d.reviews_label) ELSE 0,
       !.cuisine = IF "cuisine" \in d.has THEN "Deli" ELSE "N/A",
       !.address = IF "address" \in d.has THEN "205 E Houston St" ELSE "N/A",
       !.phone = IF "phone" \in d.has THEN "+1 212" ELSE "N/A",
       !.website = IF "website" \in d.has THEN "katz.com" ELSE "N/A"]

(* ---------------- the detail crawl ---------------- *)
(* a candidate that was skipped is taken once more *)
NextIdxRetriesSkipped ==
    IF idx \in skipped /\ Len(navigated) = idx THEN idx ELSE idx + 1

(* enumerate(place_urls, start=1) yields each element once, in order *)
NextIdx == idx + 1

(* for idx, place_url in enumerate(place_urls, start=1):
       restaurant = Restaurant(); restaurant.maps_url = place_url *)
ForNext ==
    /\ pc = "for"
    /\ IF idx < Len(place_urls)
       THEN /\ idx' = NextIdx
            /\ restaurant' = [Restaurant EXCEPT !.maps_url = place_urls[NextIdx]]
            /\ pc' = "get"
       ELSE /\ pc' = "finally"
            /\ UNCHANGED <<idx, restaurant>>
    /\ UNCHANGED <<mechtaVars, mainVars, parseVars, setup_failure,
                   driver, exc, max_results, setupVars, feed, loopVars,
                   loopGhost, collectVars, collectGhost, results, crawlGhost,
                   sessionGhost>>

(* the handler leaving the crawl instead of going on *)
SkipItemAborts ==
    /\ skipped' = skipped \cup {idx}
    /\ pc' = "finally"

(* except (StaleElementReferenceException, TimeoutException): continue *)
SkipItem ==
    /\ skipped' = skipped \cup {idx}
    /\ pc' = "for"

(* driver.get(place_url): loads, or raises TimeoutException *)
Navigate ==
    /\ pc = "get"
    /\ Cmd
    /\ navigated' = Append(navigated, idx)
    /\ \E loaded \in BOOLEAN :
          IF loaded
          THEN pc' = "name" /\ UNCHANGED <<skipped, navTimeouts>>
          ELSE SkipItem /\ navTimeouts' = navTimeouts \cup {idx}
    /\ UNCHANGED <<mechtaVars, mainVars, parseVars, setup_failure,
                   driver, exc, max_results, setupVars, feed, loopVars,
                   loopGhost, collectVars, collectGhost, crawlVars,
                   nameTimedOut, staleItems, docs, quits>>

(* the TimeoutException of the name wait reaching the handler of the item *)
NameTimeoutSkips ==
    /\ SkipItem
    /\ nameTimedOut' = nameTimedOut \cup {idx}
    /\ UNCHANGED <<restaurant, staleItems>>

(* except TimeoutException: restaurant.name = "N/A" *)
NameTimeout ==
    /\ restaurant' = [restaurant EXCEPT !.name = "N/A"]
    /\ nameTimedOut' = nameTimedOut \cup {idx}
    /\ pc' = "fields"
    /\ UNCHANGED <<skipped, staleItems>>

(* the name heading: wait.until(...) finds it, or raises TimeoutException,
   caught at the field; name_el.text may raise StaleElementReferenceException *)
ExtractName ==
    /\ pc = "name"
    /\ Cmd
    /\ \E outcome \in {"found", "timeout", "stale"} :
          CASE outcome = "found" ->
                 /\ restaurant' = [restaurant EXCEPT !.name = PlaceName]
                 /\ pc' = "fields"
                 /\ UNCHANGED <<skipped, nameTimedOut, staleItems>>
            [] outcome = "timeout" -> NameTimeout
            [] outcome = "stale" ->
                 /\ SkipItem
                 /\ staleItems' = staleItems \cup {idx}
                 /\ UNCHANGED <<restaurant, nameTimedOut>>
    /\ UNCHANGED <<mechtaVars, mainVars, parseVars, setup_failure,
                   driver, exc, max_results, setupVars, feed, loopVars,
                   loopGhost, collectVars, collectGhost, idx, results,
                   navigated, navTimeouts, docs, quits>>

(* rating, review count, cuisine, address, phone, website, then
   results.append(restaurant); an element's text may raise
   StaleElementReferenceException, which skips the candidate *)
ExtractFields(D) ==
    /\ pc = "fields"
    /\ Cmd
    /\ \/ \E d \in D :
             /\ restaurant' = Extracted(restaurant, d)
             /\ results' = Append(results, Extracted(restaurant, d))
             /\ docs' = Append(docs, d)
             /\ pc' = "for"
             /\ UNCHANGED <<skipped, staleItems>>
       \/ /\ SkipItem
          /\ staleItems' = staleItems \cup {idx}
          /\ UNCHANGED <<restaurant, results, docs>>
    /\ UNCHANGED <<mechtaVars, mainVars, parseVars, setup_failure,
                   driver, exc, max_results, setupVars, feed, loopVars,
                   loopGhost, collectVars, collectGhost, idx, navigated,
                   nameTimedOut, navTimeouts, quits>>

(* ---------------- exceptions and release ---------------- *)
(* positions inside the try block at which a browser command is issued *)
CmdPcs == {"open_maps", "consent", "search_box", "submit", "panel", "cards",
           "scroll", "collect", "get", "name", "fields"}

(* the exception absorbed like a skipped item *)
UnhandledAbsorbed == exc' = "other" /\ pc' = "for"

(* no except clause matches: the exception leaves through the finally block *)
Unhandled == exc' = "other" /\ pc' = "finally"

(* a browser command raises an exception no handler of the function catches *)
DriverError ==
    /\ pc \in CmdPcs \/ (pc = "box_check" /\ ~search_box)
    /\ Cmd
    /\ Unhandled
    /\ setup_failure' = IF pc = "open_maps" THEN "no_page"
                        ELSE IF pc = "box_check" THEN "no_box"
                        ELSE setup_failure
    /\ UNCHANGED <<mechtaVars, mainVars, parseVars, driver, max_results, setupVars, feed, loopVars, loopGhost,
                   collectVars, collectGhost, crawlVars, crawlGhost, quits>>

(* finally: driver.quit(); then return results, or the exception goes on *)
Finally ==
    /\ pc = "finally"
    /\ Cmd
    /\ driver' = "closed"
    /\ quits' = quits + 1
    /\ pc' = IF exc = "other" THEN "raised" ELSE "done"
    /\ UNCHANGED <<mechtaVars, mainVars, parseVars, setup_failure,
                   exc, max_results, setupVars, feed, loopVars, loopGhost,
                   collectVars, collectGhost, crawlVars, crawlGhost>>

(* ---------------- sort_results ---------------- *)
(* the key without its first component *)
SortKeyNoHasRating(r) ==
    <<0, IF r.rating = NoRating THEN 0 ELSE r.rating, r.review_count>>

(* key=lambda r: (r.rating is not None, r.rating or 0, r.review_count) *)
SortKey(r) ==
    <<IF r.rating # NoRating THEN 1 ELSE 0,
      IF r.rating = NoRating \/ r.rating = 0 THEN 0 ELSE r.rating,
      r.review_count>>

(* the comparison without the review count *)
KeyLessNoReviews(a, b) ==
    \/ a[1] < b[1]
    \/ a[1] = b[1] /\ a[2] < b[2]

(* tuple comparison a < b *)
KeyLess(a, b) ==
    \/ a[1] < b[1]
    \/ a[1] = b[1] /\ a[2] < b[2]
    \/ a[1] = b[1] /\ a[2] = b[2] /\ a[3] < b[3]

(* a record whose key is already in the output is left out *)
InsertDescDropsTies(out, r) ==
    LET smaller == {i \in 1..Len(out) : KeyLess(SortKey(out[i]), SortKey(r))}
        at == IF smaller = {} THEN Len(out) + 1
              ELSE CHOOSE i \in smaller : \A j \in smaller : i <= j
    IN  IF \E i \in 1..Len(out) : SortKey(out[i]) = SortKey(r)
        THEN out
        ELSE SubSeq(out, 1, at - 1) \o <<r>> \o SubSeq(out, at, Len(out))

(* r is put before the first record with a smaller key: after every record
   with a key at least as large, so equal keys keep their input order *)
InsertDesc(out, r) ==
    LET smaller == {i \in 1..Len(out) : KeyLess(SortKey(out[i]), SortKey(r))}
        at == IF smaller = {} THEN Len(out) + 1
              ELSE CHOOSE i \in smaller : \A j \in smaller : i <= j
    IN  SubSeq(out, 1, at - 1) \o <<r>> \o SubSeq(out, at, Len(out))

RECURSIVE SortedDesc(_, _)
SortedDesc(data, n) ==
    IF n = 0 THEN <<>> ELSE InsertDesc(SortedDesc(data, n - 1), data[n])

(* sorted(data, key=..., reverse=True): a new list, stable *)
sort_results(data) == SortedDesc(data, Len(data))

(* ---------------- export_to_excel ---------------- *)
(* `if r.rating` of the two generators: None and 0.0 are both falsy *)
CountsForMean(r) == r.rating # NoRating /\ r.rating # 0

RECURSIVE SumRatings(_, _)
SumRatings(data, n) ==
    IF n = 0 THEN 0
    ELSE SumRatings(data, n - 1)
         + (IF CountsForMean(data[n]) THEN data[n].rating ELSE 0)

NumRatings(data) ==
    Cardinality({i \in 1..Len(data) : CountsForMean(data[i])})

(* row_idx - 1, name, cuisine, rating or "N/A", reviews, address, phone,
   website, maps_url; NoRating stands for the "N/A" cell *)
RowOf(i, r) ==
    [index |-> i, name |-> r.name, cuisine |-> r.cuisine,
     rating |-> r.rating, review_count |-> r.review_count,
     address |-> r.address, phone |-> r.phone, website |-> r.website,
     maps_url |-> r.maps_url]

(* the data rows and the summary row; avg_rating = sum / rated, and the cell
   holds round(avg_rating, 2) *)
export_to_excel(data) ==
    [emitted |-> TRUE,
     rows |-> [i \in 1..Len(data) |-> RowOf(i, data[i])],
     total |-> Len(data),
     sum |-> SumRatings(data, Len(data)),
     rated |-> IF NumRatings(data) > 1 THEN NumRatings(data) ELSE 1]

(* ---------------- main ---------------- *)
(* if not raw_data: return, without the check *)
NothingCollectedNever == FALSE

(* if not raw_data *)
NothingCollected == results = <<>>

(* raw_data = scrape_google_maps(...); if not raw_data: log.error; return *)
MainCheck ==
    /\ pc = "done"
    /\ pc' = IF NothingCollected THEN "exit" ELSE "sort"
    /\ UNCHANGED <<mechtaVars, mainVars, parseVars, setup_failure,
                   driver, exc, max_results, setupVars,
                   feed, loopVars, loopGhost, collectVars, collectGhost,
                   crawlVars, crawlGhost, sessionGhost>>

(* sorted_data = sort_results(raw_data) *)
MainSort ==
    /\ pc = "sort"
    /\ sorted_data' = sort_results(results)
    /\ pc' = "export"
    /\ UNCHANGED <<mechtaVars, report, parseVars, setup_failure,
                   driver, exc, max_results, setupVars,
                   feed, loopVars, loopGhost, collectVars, collectGhost,
                   crawlVars, crawlGhost, sessionGhost>>

(* export_to_excel(sorted_data, OUTPUT_FILE) *)
MainExport ==
    /\ pc = "export"
    /\ report' = export_to_excel(sorted_data)
    /\ pc' = "exit"
    /\ UNCHANGED <<mechtaVars, sorted_data, parseVars, setup_failure,
                   driver, exc, max_results,
                   setupVars, feed, loopVars, loopGhost, collectVars,
                   collectGhost, crawlVars, crawlGhost, sessionGhost>>

(* ---------------- parse_review_count on its own ---------------- *)
ParseReviewCount ==
    /\ pc = "parse"
    /\ parsed' = parse_review_count(raw_text)
    /\ pc' = "parsed"
    /\ UNCHANGED <<mechtaVars, mainVars, raw_text, setup_failure,
                   driver, exc,
                   max_results, setupVars, feed, loopVars, loopGhost,
                   collectVars, collectGhost, crawlVars, crawlGhost,
                   sessionGhost>>

(* ---------------- mechta_scraper: main ---------------- *)
(* product URLs are numbered in the order main first appends them, so rows
   holds 1..Len(rows) when every append is of a new URL; a listing page
   presents some of the URLs appended last and some URLs not seen yet, in
   either order; parse_listing returns each URL of a page once *)
OldPart(o) == [j \in 1..o |-> Len(rows) - o + j]
NewPart(k) == [j \in 1..k |-> Len(rows) + j]

ListingPages ==
    {OldPart(o) \o NewPart(k) : o \in 0..Min(MaxOld, Len(rows)), k \in 0..MaxNew}
    \cup {NewPart(k) \o OldPart(o) :
             o \in 0..Min(MaxOld, Len(rows)), k \in 0..MaxNew}

(* driver = get_driver() *)
GetDriver ==
    /\ pc = "m_chrome"
    /\ \E ok \in BOOLEAN :
          IF ok
          THEN driver' = "open" /\ pc' = "m_open" /\ exc' = exc
          ELSE driver' = driver /\ pc' = "raised" /\ exc' = "other"
    /\ UNCHANGED <<mechtaVars, mapsVars, sessionGhost>>

(* driver.get(CATEGORY_URL) *)
OpenCategory ==
    /\ pc = "m_open"
    /\ Cmd
    /\ pc' = "m_verify"
    /\ UNCHANGED <<mechtaVars, mapsVars, driver, exc, quits>>

(* input("Complete Cloudflare/location verification ..."); page_num = 1 *)
Verify ==
    /\ pc = "m_verify"
    /\ page_num' = 1
    /\ pc' = "m_while"
    /\ UNCHANGED <<rows, seen_urls, items, item_i, added, autosaves,
                   final_save, mapsVars, driver, exc, sessionGhost>>

(* while len(rows) < LIMIT *)
PageLoopTest ==
    /\ pc = "m_while"
    /\ pc' = IF Len(rows) < LIMIT THEN "m_get" ELSE "m_save"
    /\ UNCHANGED <<mechtaVars, mapsVars, driver, exc, sessionGhost>>

(* driver.get(page_url); scroll_page(driver); items = parse_listing(...) *)
LoadPage ==
    /\ pc = "m_get"
    /\ Cmd
    /\ items' \in ListingPages
    /\ pc' = "m_check"
    /\ UNCHANGED <<rows, seen_urls, page_num, item_i, added, autosaves,
                   final_save, mapsVars, driver, exc, quits>>

(* if not items: ... ; otherwise added = 0 and the for loop starts *)
CheckItems ==
    /\ pc = "m_check"
    /\ IF items = <<>>
       THEN pc' = "m_confirm" /\ UNCHANGED <<added, item_i>>
       ELSE pc' = "m_for" /\ added' = 0 /\ item_i' = 0
    /\ UNCHANGED <<rows, seen_urls, page_num, items, autosaves, final_save,
                   mapsVars, driver, exc, sessionGhost>>

(* input("Enter...") *)
ConfirmRetry ==
    /\ pc = "m_confirm"
    /\ pc' = "m_refresh"
    /\ UNCHANGED <<mechtaVars, mapsVars, driver, exc, sessionGhost>>

(* driver.refresh(); continue *)
Refresh ==
    /\ pc = "m_refresh"
    /\ Cmd
    /\ pc' = "m_while"
    /\ UNCHANGED <<mechtaVars, mapsVars, driver, exc, quits>>

(* every URL taken for new *)
IsNewUrlAlways(u) == TRUE

(* if it["url"] in seen_urls: continue *)
IsNewUrl(u) == u \notin seen_urls

(* one pass of `for it in items`: break at LIMIT, continue on a seen URL,
   otherwise append, add to seen_urls, count, and autosave when
   len(rows) % 10 == 0; the loop ends after the last item *)
ForItem ==
    /\ pc = "m_for"
    /\ IF item_i < Len(items) /\ Len(rows) < LIMIT
       THEN /\ item_i' = item_i + 1
            /\ pc' = "m_for"
            /\ IF IsNewUrl(items[item_i + 1])
               THEN /\ rows' = Append(rows, items[item_i + 1])
                    /\ seen_urls' = seen_urls \cup {items[item_i + 1]}
                    /\ added' = added + 1
                    /\ autosaves' =
                          IF (Len(rows) + 1) % AutosaveEvery = 0
                          THEN Append(autosaves, Len(rows) + 1)
                          ELSE autosaves
               ELSE UNCHANGED <<rows, seen_urls, added, autosaves>>
       ELSE /\ pc' = "m_advance"
            /\ UNCHANGED <<rows, seen_urls, added, autosaves, item_i>>
    /\ UNCHANGED <<page_num, items, final_save, mapsVars, driver, exc,
                   sessionGhost>>

(* page_num += 1 *)
Advance ==
    /\ pc = "m_advance"
    /\ page_num < MaxPageNum
    /\ page_num' = page_num + 1
    /\ pc' = "m_while"
    /\ UNCHANGED <<rows, seen_urls, items, item_i, added, autosaves,
                   final_save, mapsVars, driver, exc, sessionGhost>>

(* df = pd.DataFrame(rows[:LIMIT]); df.to_excel(OUT_FILE) *)
FinalSave ==
    /\ pc = "m_save"
    /\ final_save' = Len(Slice(rows, LIMIT))
    /\ pc' = "m_finally"
    /\ UNCHANGED <<rows, seen_urls, page_num, items, item_i, added,
                   autosaves, mapsVars, driver, exc, sessionGhost>>

(* positions inside the try block at which a browser command is issued or
   the operator is prompted *)
RaisePcs == {"m_open", "m_verify", "m_get", "m_confirm", "m_refresh"}

(* driver.get, execute_script, page_source or refresh raises, or input()
   raises EOFError or KeyboardInterrupt: main has no except clause *)
Raise ==
    /\ pc \in RaisePcs
    /\ exc' = "other"
    /\ pc' = "m_finally"
    /\ UNCHANGED <<mechtaVars, mapsVars, driver, sessionGhost>>

(* finally: input("Press Enter to close the browser..."), which returns or
   raises EOFError or KeyboardInterrupt *)
ClosePrompt ==
    /\ pc = "m_finally"
    /\ \E entered \in BOOLEAN :
          IF entered
          THEN pc' = "m_quit" /\ exc' = exc
          ELSE pc' = "raised" /\ exc' = "other"
    /\ UNCHANGED <<mechtaVars, mapsVars, driver, sessionGhost>>

(* driver.quit() *)
Quit ==
    /\ pc = "m_quit"
    /\ Cmd
    /\ driver' = "closed"
    /\ quits' = quits + 1
    /\ pc' = IF exc = "other" THEN "raised" ELSE "m_done"
    /\ UNCHANGED <<mechtaVars, mapsVars, exc>>

(* ---------------- initial states ---------------- *)
SessionOpen == driver = "open" /\ exc = "none" /\ quits = 0 /\ lateCmd = FALSE

BoxFound == sel = 1 /\ search_box = TRUE

NoLoopYet ==
    /\ last_count = 0 /\ stall_counter = 0 /\ current_count = 0
    /\ iters = 0 /\ scrolls = 0 /\ prevCount = 0 /\ nonGrow = 0
    /\ targetSeen = FALSE /\ steady = 0 - 1

(* the loop has stalled on a feed of n cards after MaxIter or more passes *)
LoopStalledAt(n) ==
    /\ last_count = n /\ stall_counter = StallLimit /\ current_count = n
    /\ iters = MaxIter /\ scrolls = MaxIter /\ prevCount = n
    /\ nonGrow = StallLimit /\ targetSeen = (n >= max_results)
    /\ steady = 0 - 1

NoCollectYet ==
    /\ all_anchors = <<>> /\ seen = {} /\ place_urls = <<>>
    /\ collections = 0 /\ firstUrls = <<>>

NoCrawlYet ==
    /\ idx = 0 /\ restaurant = Restaurant /\ results = <<>>
    /\ navigated = <<>> /\ skipped = {} /\ nameTimedOut = {}
    /\ navTimeouts = {} /\ staleItems = {} /\ docs = <<>>

(* main has not got the catalog yet, no text is being parsed *)
NoReport == [emitted |-> FALSE, rows |-> <<>>, total |-> 0, sum |-> 0,
             rated |-> 0]

NoMainYet ==
    /\ sorted_data = <<>> /\ report = NoReport
    /\ raw_text = <<>> /\ parsed = 0
    /\ setup_failure = "none"

(* mechta_scraper is not running *)
NoMechtaYet ==
    /\ rows = <<>> /\ seen_urls = {} /\ page_num = 0
    /\ items = <<>> /\ item_i = 0 /\ added = 0
    /\ autosaves = <<>> /\ final_save = NoSave

(* scrape_google_maps is entered *)
Init ==
    /\ pc = "chrome" /\ driver = "none" /\ exc = "none"
    /\ quits = 0 /\ lateCmd = FALSE
    /\ max_results \in Targets
    /\ sel = 0 /\ search_box = FALSE
    /\ feed = <<>>
    /\ NoLoopYet /\ NoCollectYet /\ NoCrawlYet /\ NoMainYet /\ NoMechtaYet

(* the results panel was found: the scroll loop is about to start *)
LoopInit ==
    /\ pc = "while" /\ SessionOpen /\ BoxFound
    /\ max_results \in Targets
    /\ feed \in CountFeeds
    /\ NoLoopYet /\ NoCollectYet /\ NoCrawlYet /\ NoMainYet /\ NoMechtaYet

(* the scroll loop is over: the URLs are about to be collected *)
CollectInit ==
    /\ pc = "collect" /\ SessionOpen /\ BoxFound
    /\ max_results \in Targets
    /\ feed \in AnyFeeds
    /\ IF max_results = 0 THEN NoLoopYet ELSE LoopStalledAt(Len(feed))
    /\ NoCollectYet /\ NoCrawlYet /\ NoMainYet /\ NoMechtaYet

(* the URLs are collected: the detail crawl is about to start *)
CrawlInit ==
    /\ pc = "for" /\ SessionOpen /\ BoxFound
    /\ max_results = MAX_RESULTS
    /\ \E n \in 0..MaxCand :
          /\ feed = DistinctFeed(n)
          /\ LoopStalledAt(n)
          /\ all_anchors = DistinctFeed(n)
          /\ seen = 1..n
          /\ place_urls = DistinctFeed(n)
          /\ firstUrls = DistinctFeed(n)
    /\ collections = 1
    /\ NoCrawlYet /\ NoMainYet /\ NoMechtaYet

(* review labels and rating texts of the catalogs handed to main *)
SortLabels == {<<"n", "o">>, <<"(", "9", ")">>, <<"1", "2">>}
SortRatings == {<<"0">>, <<"4", ".", "5">>}

SortDocs ==
    {[has |-> FieldNames, rating_text |-> rt, reviews_label |-> rl] :
        rt \in SortRatings, rl \in SortLabels}
    \cup {[has |-> FieldNames \ {"rating"}, rating_text |-> <<>>,
           reviews_label |-> rl] : rl \in SortLabels}

(* the catalog scrape_google_maps builds from the documents ds, none of the
   candidates skipped *)
CatalogOf(ds) ==
    [i \in 1..Len(ds) |->
        Extracted([Restaurant EXCEPT !.maps_url = i, !.name = PlaceName],
                  ds[i])]

(* the detail crawl is about to start on 1..MaxRec candidates *)
RecordInit ==
    /\ pc = "for" /\ SessionOpen /\ BoxFound
    /\ max_results = MAX_RESULTS
    /\ \E n \in 1..MaxRec :
          /\ feed = DistinctFeed(n)
          /\ LoopStalledAt(n)
          /\ all_anchors = DistinctFeed(n)
          /\ seen = 1..n
          /\ place_urls = DistinctFeed(n)
          /\ firstUrls = DistinctFeed(n)
    /\ collections = 1
    /\ NoCrawlYet /\ NoMainYet /\ NoMechtaYet

(* parse_review_count is called on a text, no run under way *)
ParseInit ==
    /\ pc = "parse" /\ driver = "none" /\ exc = "none"
    /\ quits = 0 /\ lateCmd = FALSE
    /\ max_results = MAX_RESULTS
    /\ sel = 0 /\ search_box = FALSE
    /\ feed = <<>>
    /\ NoLoopYet /\ NoCollectYet /\ NoCrawlYet
    /\ sorted_data = <<>> /\ report = NoReport /\ setup_failure = "none"
    /\ raw_text \in ReviewTexts /\ parsed = 0
    /\ NoMechtaYet

(* main of mechta_scraper is entered *)
MechtaInit ==
    /\ pc = "m_chrome" /\ driver = "none" /\ exc = "none"
    /\ quits = 0 /\ lateCmd = FALSE
    /\ max_results = MAX_RESULTS
    /\ sel = 0 /\ search_box = FALSE
    /\ feed = <<>>
    /\ NoLoopYet /\ NoCollectYet /\ NoCrawlYet /\ NoMainYet /\ NoMechtaYet

(* scrape_google_maps has returned its catalog to main *)
SortInit ==
    /\ pc = "done" /\ driver = "closed" /\ exc = "none"
    /\ quits = 1 /\ lateCmd = FALSE /\ BoxFound
    /\ max_results = MAX_RESULTS
    /\ \E ds \in SeqsUpTo(SortDocs, MaxSort) :
          /\ feed = DistinctFeed(Len(ds))
          /\ LoopStalledAt(Len(ds))
          /\ all_anchors = DistinctFeed(Len(ds))
          /\ seen = 1..Len(ds)
          /\ place_urls = DistinctFeed(Len(ds))
          /\ firstUrls = DistinctFeed(Len(ds))
          /\ idx = Len(ds)
          /\ results = CatalogOf(ds)
          /\ restaurant = IF ds = <<>> THEN Restaurant
                          ELSE CatalogOf(ds)[Len(ds)]
          /\ navigated = DistinctFeed(Len(ds))
          /\ docs = ds
    /\ collections = 1
    /\ skipped = {} /\ nameTimedOut = {} /\ navTimeouts = {}
    /\ staleItems = {}
    /\ NoMainYet /\ NoMechtaYet

(* ---------------- specifications ---------------- *)
Next ==
    \/ BuildChrome
    \/ StealthScript
    \/ OpenMaps
    \/ Consent
    \/ TrySelector
    \/ BoxCheck
    \/ Submit(RunFeeds)
    \/ Panel
    \/ WhileTest
    \/ Cards
    \/ ScrollStep(RunFeeds)
    \/ StallUpdate
    \/ Collect
    \/ ForNext
    \/ Navigate
    \/ ExtractName
    \/ ExtractFields(CrawlDocs)
    \/ DriverError
    \/ Finally
    \/ MainCheck
    \/ MainSort
    \/ MainExport

Spec == Init /\ [][Next]_vars

LoopNext ==
    \/ WhileTest
    \/ Cards
    \/ ScrollStep(CountFeeds)
    \/ StallUpdate
    \/ Collect

LoopSpec == LoopInit /\ [][LoopNext]_vars

(* the loop body is straight-line code: a pass that can run does run *)
FairLoopSpec == LoopSpec /\ WF_vars(LoopNext)

CollectNext ==
    \/ Collect
    \/ CollectAgain

CollectSpec == CollectInit /\ [][CollectNext]_vars

CrawlNext ==
    \/ ForNext
    \/ Navigate
    \/ ExtractName
    \/ ExtractFields(CrawlDocs)
    \/ DriverError
    \/ Finally

CrawlSpec == CrawlInit /\ [][CrawlNext]_vars

RecordNext ==
    \/ ForNext
    \/ Navigate
    \/ ExtractName
    \/ ExtractFields(RecordDocs)
    \/ DriverError
    \/ Finally

RecordSpec == RecordInit /\ [][RecordNext]_vars

MechtaNext ==
    \/ GetDriver
    \/ OpenCategory
    \/ Verify
    \/ PageLoopTest
    \/ LoadPage
    \/ CheckItems
    \/ ConfirmRetry
    \/ Refresh
    \/ ForItem
    \/ Advance
    \/ FinalSave
    \/ Raise
    \/ ClosePrompt
    \/ Quit

MechtaSpec == MechtaInit /\ [][MechtaNext]_vars

ParseNext == ParseReviewCount

ParseSpec == ParseInit /\ [][ParseNext]_vars

SortNext ==
    \/ MainCheck
    \/ MainSort
    \/ MainExport

SortSpec == SortInit /\ [][SortNext]_vars

(* ================= the scroll loop ================= *)
LoopPcs == {"while", "cards", "scroll", "stall"}

(* C1: once a measured card count is >= max_results the loop exits: no
   further pass of the loop (measurement and scroll) is started. *)
C1_ExitsAtTarget == targetSeen => pc # "cards"

(* C2: whatever the page does, the scroll loop is eventually left. *)
C2_LoopTerminates == <>(pc \notin LoopPcs)

(* C3: with the target not reached, the loop is left after exactly
   StallLimit measurements that did not grow since the last increase: no
   further such measurement is taken, and it is not left after fewer. *)
C3_ExactStall ==
    (~targetSeen /\ max_results > 0) =>
        /\ nonGrow <= StallLimit
        /\ pc = "collect" => nonGrow = StallLimit

(* C4 as stated: a feed that reports 5 cards on every measurement, with
   target 60, makes the loop stop after the fifth measurement and the fifth
   scroll step, and the run goes on with 5 candidates. *)
C4_StopsAfterFifth ==
    (steady = 5 /\ max_results = MAX_RESULTS) =>
        /\ pc = "collect" => iters = 5 /\ scrolls = 5
        /\ (pc = "for" /\ Len(all_anchors) = 5) => Len(place_urls) = 5

(* C4 amended: such a feed makes the loop stop after the sixth measurement
   and the sixth scroll step (the first measurement sets the baseline, the
   next five are flat), and the run goes on with the distinct hrefs of the 5
   anchors: 5 candidates, not 60. *)
C4_StopsAfterSixth ==
    (steady = 5 /\ max_results = MAX_RESULTS) =>
        /\ pc \in LoopPcs => iters <= 6 /\ scrolls <= 6
        /\ pc \in {"collect", "for"} => iters = 6 /\ scrolls = 6
        /\ (pc = "for" /\ Len(all_anchors) = 5) => Len(place_urls) = 5

C4_Witness ==
    /\ steady = 5 /\ max_results = MAX_RESULTS /\ pc = "for"
    /\ iters = 6 /\ scrolls = 6 /\ stall_counter = StallLimit
    /\ Len(all_anchors) = 5 /\ place_urls = <<1, 2, 3, 4, 5>>

(* ================= the collected URLs ================= *)
(* the hrefs the anchors carry, and the position of the first anchor that
   carries href u *)
HrefsOf(anchors) == {a \in Range(anchors) : a # NoHref /\ a # StaleAnchor}

FirstPos(anchors, u) ==
    CHOOSE k \in 1..Len(anchors) :
        anchors[k] = u /\ \A m \in 1..(k - 1) : anchors[m] # u

(* the number of distinct hrefs first seen at or before the first anchor
   carrying u *)
Rank(anchors, u) ==
    Cardinality({v \in HrefsOf(anchors) :
                    FirstPos(anchors, v) <= FirstPos(anchors, u)})

(* C5: place_urls holds hrefs of the anchors, none twice, in the order in
   which each first appears among the anchors. *)
C5_DistinctFirstSeen ==
    collections >= 1 =>
        /\ Range(place_urls) \subseteq HrefsOf(all_anchors)
        /\ \A i, j \in 1..Len(place_urls) :
              i < j => /\ place_urls[i] # place_urls[j]
                       /\ FirstPos(all_anchors, place_urls[i])
                            < FirstPos(all_anchors, place_urls[j])

C5_Witness ==
    /\ collections >= 1
    /\ all_anchors = <<2, StaleAnchor, 2, NoHref>> \o <<1>>
    /\ place_urls = <<2, 1>>

(* C6: place_urls is the first min(max_results, d) of the d distinct hrefs
   in first-seen order: the slice is taken after the duplicates are
   dropped. *)
C6_TruncatedAfterDedup ==
    collections >= 1 =>
        /\ Len(place_urls) =
              Min(max_results, Cardinality(HrefsOf(all_anchors)))
        /\ \A u \in HrefsOf(all_anchors) :
              (u \in Range(place_urls)) <=> (Rank(all_anchors, u) <= max_results)

C6_Witness ==
    /\ collections >= 1 /\ max_results = 2
    /\ all_anchors = <<1, 1, 2, 3>>
    /\ place_urls = <<1, 2>>

Finished ==
    IF pc \in {"get", "name", "fields"} \/ (exc = "other" /\ idx > 0)
    THEN idx - 1 ELSE idx

NotSkipped(i) == i \notin skipped

(* the candidates that ended without a skip, in candidate order *)
Kept == SelectSeq(DistinctFeed(Finished), NotSkipped)

(* C8: a TimeoutException or StaleElementReferenceException on candidate i
   skips that candidate only: the catalog holds one complete record for each
   candidate that ended without a skip, in candidate order, its length is
   the number of ended candidates minus the skipped ones, and the crawl goes
   on to every later candidate. *)
C8_Isolation ==
    /\ skipped \subseteq 1..Finished
    /\ Len(results) = Finished - Cardinality(skipped)
    /\ Len(results) = Len(Kept)
    /\ \A k \in 1..Len(results) :
          /\ results[k].maps_url = place_urls[Kept[k]]
          /\ DOMAIN results[k] = DOMAIN Restaurant
    /\ (pc \in {"finally", "done"} /\ exc = "none") =>
          /\ Finished = Len(place_urls)
          /\ navigated = DistinctFeed(Len(place_urls))

C8_Witness ==
    /\ pc = "done" /\ Len(place_urls) = 5
    /\ skipped = {4} /\ navTimeouts = {4}
    /\ Len(results) = 4
    /\ [k \in 1..4 |-> results[k].maps_url] = <<1, 2, 3, 5>>

(* C9 as stated: a candidate whose name heading did not appear within the
   wait has no record in the catalog. *)
C9_NameTimeoutSkips ==
    \A i \in nameTimedOut :
        \A k \in 1..Len(results) : results[k].maps_url # place_urls[i]

(* C9 amended: a name heading that does not appear within the wait gives the
   record the name "N/A" and the candidate goes on: its record is appended
   unless a later exception skips it.  A candidate is skipped only by a
   TimeoutException of the navigation or a StaleElementReferenceException,
   and no candidate is navigated twice. *)
C9_NameDefaulted ==
    /\ skipped = navTimeouts \cup staleItems
    /\ \A i \in nameTimedOut :
          (i <= Finished /\ i \notin skipped) =>
              \E k \in 1..Len(results) :
                  /\ results[k].maps_url = place_urls[i]
                  /\ results[k].name = "N/A"
    /\ \A k \in 1..Len(results) :
          results[k].name = "N/A" => Kept[k] \in nameTimedOut
    /\ \A a, b \in 1..Len(navigated) :
          a # b => navigated[a] # navigated[b]

C9_Witness ==
    /\ pc = "done" /\ nameTimedOut = {2} /\ skipped = {}
    /\ Len(place_urls) = 3 /\ Len(results) = 3
    /\ results[2].name = "N/A" /\ results[2].maps_url = place_urls[2]
    /\ results[2].rating = 450

(* ================= parse_review_count ================= *)
RECURSIVE Pow10(_)
Pow10(n) == IF n = 0 THEN 1 ELSE 10 * Pow10(n - 1)

(* the digit at place p of the text counts for 10 to the number of digits
   that follow it *)
DigitsAfter(raw, p) ==
    Cardinality({q \in (p + 1)..Len(raw) : raw[q] \in Digits})

RECURSIVE PlaceValueSum(_, _)
PlaceValueSum(raw, p) ==
    IF p = 0 THEN 0
    ELSE PlaceValueSum(raw, p - 1)
         + (IF raw[p] \in Digits
            THEN DigitVal(raw[p]) * Pow10(DigitsAfter(raw, p)) ELSE 0)

(* C20: parse_review_count returns the integer whose decimal digits are the
   digit characters of the text, in order, and 0 for a text without a digit;
   "(1,234)" gives 1234 and "no reviews" gives 0. *)
C20_DigitsInOrder ==
    pc = "parsed" =>
        /\ parsed = PlaceValueSum(raw_text, Len(raw_text))
        /\ (\A p \in 1..Len(raw_text) : raw_text[p] \notin Digits)
              => parsed = 0
        /\ raw_text = <<"(", "1", ",", "2", "3", "4", ")">> => parsed = 1234
        /\ raw_text = <<"n", "o", " ", "r", "e", "v", "i", "e", "w", "s">>
              => parsed = 0

C20_Witness ==
    /\ pc = "parsed"
    /\ raw_text = <<"(", "1", ",", "2", "3", "4", ")">>
    /\ parsed = 1234

(* ================= the fields of a record ================= *)
(* the field of the record an optional element fills *)
FieldKey(f) == IF f = "reviews" THEN "review_count" ELSE f

(* document d with the element of field f missing *)
Without(d, f) == [d EXCEPT !.has = @ \ {f}]

(* document d with a text for field f that does not parse *)
Garbled(d, f) ==
    IF f = "rating"
    THEN [d EXCEPT !.has = @ \cup {f}, !.rating_text = <<"N", "e", "w">>]
    ELSE [d EXCEPT !.has = @ \cup {f}, !.reviews_label = <<"n", "o">>]

(* records a and b agree on every field an optional element fills, but f *)
SameBut(a, b, f) ==
    \A g \in FieldNames \ {f} : a[FieldKey(g)] = b[FieldKey(g)]

(* C15: every record of the catalog has the eight declared fields, each
   holding an extracted value or its default; a field whose element is
   missing or whose text does not parse holds its default; and the record
   extracted from the same page without the element of one field, or with an
   unparsable text for it, differs from the record in that field at most,
   where it holds the default. The name is "N/A" exactly when its wait timed
   out, whatever the other fields are. *)
C15_FieldsIndependent ==
    /\ Len(docs) = Len(results)
    /\ \A k \in 1..Len(results) :
          LET r == results[k]
              d == docs[k]
              base == [Restaurant EXCEPT !.maps_url = r.maps_url,
                                         !.name = r.name]
          IN  /\ DOMAIN r = DOMAIN Restaurant
              /\ r.maps_url \in Range(place_urls)
              /\ r.name = IF r.maps_url \in nameTimedOut THEN "N/A"
                          ELSE PlaceName
              /\ r.review_count >= 0
              /\ r.rating = NoRating \/ r.rating >= 0
              /\ \A f \in FieldNames :
                    /\ f \notin d.has
                          => r[FieldKey(f)] = Restaurant[FieldKey(f)]
                    /\ SameBut(Extracted(base, Without(d, f)), r, f)
                    /\ Extracted(base, Without(d, f))[FieldKey(f)]
                          = Restaurant[FieldKey(f)]
              /\ \A f \in {"rating", "reviews"} :
                    /\ SameBut(Extracted(base, Garbled(d, f)), r, f)
                    /\ Extracted(base, Garbled(d, f))[FieldKey(f)]
                          = Restaurant[FieldKey(f)]
              /\ (d.has = FieldNames /\ d.rating_text = <<"4", ",", "5">>
                    /\ d.reviews_label = <<"(", "1", "2", ")">>)
                    => r = [name |-> r.name, address |-> "205 E Houston St",
                            phone |-> "+1 212", rating |-> 450,
                            review_count |-> 12, website |-> "katz.com",
                            cuisine |-> "Deli", maps_url |-> r.maps_url]

(* a page with no name heading, a rating text that does not parse, no
   cuisine element, and the other elements present *)
C15_Witness ==
    /\ pc = "done" /\ Len(results) = 1 /\ nameTimedOut = {1}
    /\ docs[1].has = FieldNames \ {"cuisine"}
    /\ docs[1].rating_text = <<"N", "e", "w">>
    /\ results[1] = [name |-> "N/A", address |-> "205 E Houston St",
                     phone |-> "+1 212", rating |-> NoRating,
                     review_count |-> 12, website |-> "katz.com",
                     cuisine |-> "N/A", maps_url |-> 1]

(* ================= ranking and the report ================= *)
(* main has ranked a catalog that was not empty *)
Ranked == pc \in {"export", "exit"} /\ results # <<>>

HasRating(r) == r.rating # NoRating

(* the place of record r in the catalog handed to sort_results *)
InputPos(r) == CHOOSE k \in 1..Len(results) : results[k] = r

(* (rating, review_count) of a >= that of b, lexicographically *)
PairGeq(a, b) ==
    \/ a.rating > b.rating
    \/ a.rating = b.rating /\ a.review_count >= b.review_count

TiedOnKey(a, b) ==
    /\ HasRating(a) = HasRating(b)
    /\ a.rating = b.rating
    /\ a.review_count = b.review_count

(* C12 as stated: for every pair A before B of the ranked output, A has a
   rating and B has none, or both have ratings and A's (rating,
   review_count) is lexicographically at least B's, or the two are tied on
   the key and A was no later than B in the input. *)
C12_PairwiseOrder ==
    Ranked =>
        \A i, j \in 1..Len(sorted_data) :
            i < j =>
                LET A == sorted_data[i]
                    B == sorted_data[j]
                IN  \/ HasRating(A) /\ ~HasRating(B)
                    \/ HasRating(A) /\ HasRating(B) /\ PairGeq(A, B)
                    \/ TiedOnKey(A, B) /\ InputPos(A) <= InputPos(B)

(* C12: the same with the case the statement leaves out: neither record
   has a rating and A has more reviews than B. *)
C12_PairwiseOrderUnrated ==
    Ranked =>
        \A i, j \in 1..Len(sorted_data) :
            i < j =>
                LET A == sorted_data[i]
                    B == sorted_data[j]
                IN  \/ HasRating(A) /\ ~HasRating(B)
                    \/ HasRating(A) /\ HasRating(B) /\ PairGeq(A, B)
                    \/ /\ ~HasRating(A) /\ ~HasRating(B)
                       /\ A.review_count > B.review_count
                    \/ TiedOnKey(A, B) /\ InputPos(A) <= InputPos(B)

(* the input <unrated 9 reviews, unrated 12, rated 4.5 with 9> is ranked
   <rated, unrated 12, unrated 9> *)
C12_Witness ==
    /\ pc = "exit" /\ Len(results) = 3 /\ Len(sorted_data) = 3
    /\ ~HasRating(results[1]) /\ results[1].review_count = 9
    /\ ~HasRating(results[2]) /\ results[2].review_count = 12
    /\ results[3].rating = 450 /\ results[3].review_count = 9
    /\ sorted_data = <<results[3], results[2], results[1]>>

(* C13: in the ranked output every record without a rating is after every
   record with one, a rating of 0 included, whatever the review counts, and
   records with equal keys are in their input order. *)
C13_UnratedLast ==
    Ranked =>
        /\ Len(sorted_data) = Len(results)
        /\ \A i, j \in 1..Len(sorted_data) :
              (HasRating(sorted_data[i]) /\ ~HasRating(sorted_data[j]))
                  => i < j
        /\ \A i, j \in 1..Len(sorted_data) :
              (i < j /\ TiedOnKey(sorted_data[i], sorted_data[j]))
                  => InputPos(sorted_data[i]) < InputPos(sorted_data[j])

(* an unrated record with 12 reviews, then two records rated 0 with no
   review: the rated ones are first, in their input order *)
C13_Witness ==
    /\ pc = "exit" /\ Len(results) = 3
    /\ ~HasRating(results[1]) /\ results[1].review_count = 12
    /\ results[2].rating = 0 /\ results[2].review_count = 0
    /\ results[3].rating = 0 /\ results[3].review_count = 0
    /\ sorted_data = <<results[2], results[3], results[1]>>

(* the sum of the ratings of the records that have one, and their number,
   over the rows of the report *)
RECURSIVE SumNotNull(_, _)
SumNotNull(cells, n) ==
    IF n = 0 THEN 0
    ELSE SumNotNull(cells, n - 1)
         + (IF cells[n].rating # NoRating THEN cells[n].rating ELSE 0)

CountNotNull(cells) ==
    Cardinality({i \in 1..Len(cells) : cells[i].rating # NoRating})

(* C14: the mean of the summary row is the sum of the ratings that are not
   null divided by max(1, the number of ratings that are not null); the two
   fractions are compared by cross multiplication. *)
C14_MeanOverNotNull ==
    report.emitted =>
        report.sum * (IF CountNotNull(report.rows) > 1
                      THEN CountNotNull(report.rows) ELSE 1)
            = SumNotNull(report.rows, Len(report.rows)) * report.rated

(* ================= a run that stalls short of the target ================= *)
(* main is over after a run whose loop stalled with fewer candidates than
   requested, and no exception ended it *)
StalledShortRunOver ==
    /\ pc = "exit" /\ exc = "none" /\ setup_failure = "none"
    /\ stall_counter >= StallLimit
    /\ Len(place_urls) < max_results

AllVisited ==
    /\ Len(navigated) = Len(place_urls)
    /\ \A i \in 1..Len(navigated) : navigated[i] = i
    /\ Len(results) + Cardinality(skipped) = Len(place_urls)

(* the rows of the report are the records of the catalog, each once, the
   rated ones first by descending rating *)
RowsAreCatalogRanked ==
    /\ report.total = Len(results)
    /\ Len(report.rows) = Len(results)
    /\ \A k \in 1..Len(results) :
          \E i \in 1..Len(report.rows) :
              report.rows[i] = RowOf(i, results[k])
    /\ \A i, j \in 1..Len(report.rows) :
          i < j => \/ report.rows[j].rating = NoRating
                   \/ report.rows[i].rating >= report.rows[j].rating
                      /\ report.rows[i].rating # NoRating

(* C16 as stated: such a run has visited all its candidates and has
   produced a ranked report of the records found, for any number k >= 0 of
   candidates and any skipped items. *)
C16_AlwaysReport ==
    StalledShortRunOver =>
        AllVisited /\ report.emitted /\ RowsAreCatalogRanked

(* C16: the stall is no error and the crawl visits every candidate found;
   the ranked report of the records found is produced when the catalog has
   at least one record, and no report is produced when it has none. *)
C16_ReportIffRecords ==
    /\ (pc \in {"collect", "for"} /\ stall_counter >= StallLimit)
          => exc = "none"
    /\ StalledShortRunOver =>
          /\ AllVisited
          /\ report.emitted <=> results # <<>>
          /\ report.emitted => RowsAreCatalogRanked
          /\ ~report.emitted => report = NoReport

(* two candidates found where 60 were asked for, the first one skipped: a
   report of one row *)
C16_Witness ==
    /\ StalledShortRunOver /\ max_results = MAX_RESULTS
    /\ Len(place_urls) = 2 /\ skipped = {1} /\ Len(results) = 1
    /\ report.emitted /\ report.total = 1
    /\ report.rows[1].maps_url = place_urls[2]

(* ================= the stall counter ================= *)
(* C18: in each pass of the loop, a measured count that is less than or
   equal to the baseline adds one to the stall counter and leaves the
   baseline; only a strictly larger count resets the counter to zero and
   becomes the baseline. *)
C18_StallRule ==
    [][pc = "stall" =>
          IF current_count <= last_count
          THEN stall_counter' = stall_counter + 1 /\ last_count' = last_count
          ELSE stall_counter' = 0 /\ last_count' = current_count]_vars

(* ================= the order of the crawl ================= *)
(* candidate i has been decided: its record is in the catalog or it was
   skipped *)
Decided(i) ==
    \/ i \in skipped
    \/ \E k \in 1..Len(results) : results[k].maps_url = place_urls[i]

(* C19: the navigations made so far are those to the candidates 1, 2, ...
   in the collected order, each once; a navigation is made only when every
   earlier candidate has been decided; a step adds at most one navigation,
   to the candidate after the last one navigated; and a crawl that ends
   without an exception has navigated to every candidate. *)
C19_OnceInOrder ==
    /\ [](/\ Len(navigated) <= Len(place_urls)
          /\ \A i \in 1..Len(navigated) : navigated[i] = i
          /\ pc = "get" =>
                /\ Len(navigated) = idx - 1
                /\ \A i \in 1..(idx - 1) : Decided(i)
          /\ pc \in {"name", "fields"} => Len(navigated) = idx
          /\ (pc = "done" /\ exc = "none")
                => /\ Len(navigated) = Len(place_urls)
                   /\ \A i \in 1..Len(place_urls) : Decided(i))
    /\ [][\/ navigated' = navigated
          \/ /\ pc = "get"
             /\ navigated' = Append(navigated, Len(navigated) + 1)]_vars

(* five candidates, the second skipped on a navigation timeout, the fourth
   on a stale element: five navigations, in order *)
C19_Witness ==
    /\ pc = "done" /\ exc = "none" /\ Len(place_urls) = 5
    /\ navigated = <<1, 2, 3, 4, 5>>
    /\ navTimeouts = {2} /\ staleItems = {4} /\ skipped = {2, 4}
    /\ Len(results) = 3

(* ================= the catalog ================= *)
(* C17: in every state of a run the catalog has at most max_results
   records; a step changes it only by appending one record at its end, which
   happens in the detail crawl only; once scrape_google_maps has returned it,
   no step changes it. *)
C17_BoundedAppendOnly ==
    /\ [](Len(results) <= max_results)
    /\ [][/\ \/ results' = results
             \/ /\ pc = "fields"
                /\ Len(results') = Len(results) + 1
                /\ SubSeq(results', 1, Len(results)) = results
          /\ pc \in {"done", "sort", "export", "exit", "raised"}
                => results' = results]_vars

(* two distinct places are listed and one is asked for: the catalog has one
   record at the end *)
C17_Witness ==
    /\ pc = "exit" /\ max_results = 1
    /\ all_anchors = <<1, 2>> /\ place_urls = <<1>>
    /\ Len(results) = 1 /\ results[1].maps_url = 1

(* ================= sort_results as a permutation ================= *)
(* how many times record r is in the list s *)
CountIn(s, r) == Cardinality({i \in 1..Len(s) : s[i] = r})

(* C21: the list sort_results returns has the length of the catalog and
   holds every record as many times as the catalog does; the catalog itself
   is the list scrape_google_maps returned, unchanged by the sort. *)
C21_Permutation ==
    /\ [](Ranked =>
            /\ Len(sorted_data) = Len(results)
            /\ \A i \in 1..Len(results) :
                  CountIn(sorted_data, results[i]) = CountIn(results, results[i])
            /\ \A i \in 1..Len(sorted_data) :
                  CountIn(results, sorted_data[i]) > 0
            /\ results = CatalogOf(docs))
    /\ [][pc = "sort" => results' = results]_vars

(* three records, the first two with one key and the third ranked first:
   the output is another order of the same three records *)
C21_Witness ==
    /\ pc = "exit" /\ Len(results) = 3 /\ Len(sorted_data) = 3
    /\ TiedOnKey(results[1], results[2])
    /\ sorted_data = <<results[3], results[1], results[2]>>
    /\ sorted_data # results

(* ================= exceptions in the detail crawl ================= *)
(* C22: a candidate is skipped only for a TimeoutException or a
   StaleElementReferenceException; any other exception raised at a candidate
   ends the crawl there: the candidate is neither recorded nor skipped, no
   later candidate is navigated to, the catalog stays as it was, the session
   is quit once, and the function ends by the exception, not by a return. *)
C22_OtherExceptionsPropagate ==
    /\ [](/\ skipped = navTimeouts \cup staleItems
          /\ exc = "other" =>
                /\ pc \in {"finally", "raised"}
                /\ idx \in 1..Len(place_urls)
                /\ ~Decided(idx)
                /\ Len(results) + Cardinality(skipped) = idx - 1
                /\ Len(navigated) \in {idx - 1, idx}
                /\ pc = "raised" => (driver = "closed" /\ quits = 1)
          /\ pc = "done" => exc = "none")
    /\ [][exc = "other" =>
             /\ results' = results /\ navigated' = navigated
             /\ idx' = idx /\ skipped' = skipped /\ exc' = exc
             /\ pc' \in {"finally", "raised"}]_vars

(* the third of five candidates raises after two records were appended: the
   function ends by the exception with the session quit *)
C22_Witness ==
    /\ pc = "raised" /\ exc = "other" /\ Len(place_urls) = 5
    /\ idx = 3 /\ Len(results) = 2 /\ skipped = {}
    /\ navigated = <<1, 2, 3>>
    /\ driver = "closed" /\ quits = 1

(* ================= mechta_scraper: rows and autosaves ================= *)
(* C23: in every state of main, rows holds no URL twice, every URL of rows
   is in seen_urls and rows has at most LIMIT items; a step makes an
   autosave exactly when it appends an item that brings the length of rows
   to a multiple of 10, and the autosave is of that length. *)
C23_RowsDistinctAutosaved ==
    /\ [](/\ \A i, j \in 1..Len(rows) : rows[i] = rows[j] => i = j
          /\ Range(rows) \subseteq seen_urls
          /\ Len(rows) <= LIMIT)
    /\ [][/\ (autosaves' # autosaves)
                <=> /\ Len(rows') = Len(rows) + 1
                    /\ Len(rows') % 10 = 0
          /\ (autosaves' # autosaves)
                => autosaves' = Append(autosaves, Len(rows'))
          /\ rows' # rows
                => /\ SubSeq(rows', 1, Len(rows)) = rows
                   /\ Len(rows') = Len(rows) + 1]_vars

(* a page of one product already in rows and three new ones takes rows
   from 17 to 20 items, with the second autosave *)
C23_Witness ==
    /\ pc = "m_advance" /\ items = <<17, 18, 19, 20>> /\ added = 3
    /\ Len(rows) = 20 /\ autosaves = <<10, 20>>
    /\ seen_urls = 1..20

(* ================= mechta_scraper: the pagination loop ================= *)
(* the loop is left for the final save only with LIMIT rows, and the final
   save holds LIMIT rows *)
ExitAtLimit ==
    /\ pc = "m_save" => Len(rows) = LIMIT
    /\ final_save # NoSave => final_save = LIMIT

(* a page without items goes to the operator's confirmation and the refresh
   with page_num unchanged, and the same page is loaded again *)
RetrySamePage ==
    /\ (pc = "m_check" /\ items = <<>>)
          => (pc' = "m_confirm" /\ page_num' = page_num)
    /\ pc = "m_confirm"
          => (pc' \in {"m_refresh", "m_finally"} /\ page_num' = page_num)
    /\ pc = "m_refresh"
          => (pc' \in {"m_while", "m_finally"} /\ page_num' = page_num)

(* a page with items advances page_num by one, new items added or not, and
   the loop goes on whatever the number of pages without a new item *)
AdvanceAlways ==
    /\ (pc = "m_for" /\ pc' # "m_for")
          => (pc' = "m_advance" /\ page_num' = page_num)
    /\ pc = "m_advance"
          => (pc' = "m_while" /\ page_num' = page_num + 1)

(* main has ended with a browser started: the browser was quit, once *)
QuitOnExit ==
    (pc \in {"m_done", "raised"} /\ driver # "none")
        => (driver = "closed" /\ quits = 1)

(* C24: the pagination loop is left only with len(rows) = LIMIT and the
   final save holds LIMIT rows; a page without items is retried at the same
   page number after the operator's confirmation; a page with only seen
   items advances the page number, with no stall limit; and on every exit
   path the browser is quit. *)
C24_LoopAndRelease ==
    /\ [](ExitAtLimit /\ QuitOnExit)
    /\ [][RetrySamePage /\ AdvanceAlways]_vars

(* ================= the browser session ================= *)
(* ================= setup failures ================= *)
Terminated == pc \in {"exit", "raised"}

(* C11 as stated: after a setup failure scrape_google_maps returns an empty
   catalog (it does not end by an exception), the loop, the collection and
   the crawl were never entered, the session is released and main has
   emitted no report. *)
C11_SetupFailureReturnsEmpty ==
    (Terminated /\ setup_failure # "none") =>
        /\ pc = "exit" /\ exc = "none" /\ results = <<>>
        /\ iters = 0 /\ collections = 0 /\ navigated = <<>>
        /\ driver = "closed" /\ quits = 1
        /\ ~report.emitted

(* C11: from a setup failure on, the catalog is empty, the loop, the
   collection and the crawl are never entered, main emits no report, and the
   function is in its finally block or past it with the session quit once;
   it returns the empty catalog when the search box or the panel is missing,
   and ends by the exception when the page load or the screenshot raised. *)
C11_SetupFailureNoRecords ==
    setup_failure # "none" =>
        /\ pc \in {"finally", "done", "exit", "raised"}
        /\ results = <<>> /\ idx = 0 /\ navigated = <<>>
        /\ iters = 0 /\ scrolls = 0 /\ collections = 0
        /\ sorted_data = <<>> /\ ~report.emitted
        /\ pc # "finally" => (driver = "closed" /\ quits = 1)
        /\ pc \in {"done", "exit"} => exc = "none"
        /\ pc = "raised" => exc = "other"
        /\ setup_failure = "no_page" => exc = "other"
        /\ setup_failure = "no_panel" => exc = "none"

C11_Witness ==
    /\ pc = "exit" /\ setup_failure = "no_panel" /\ search_box
    /\ results = <<>> /\ driver = "closed" /\ quits = 1
    /\ ~report.emitted

(* C10: once scrape_google_maps has ended, by return or by exception, a
   session that was started has been quit exactly once, and no command was
   sent to a session that was not open. *)
C10_ReleasedOnce ==
    /\ ~lateCmd
    /\ quits <= 1
    /\ (pc \in {"done", "raised"} /\ driver # "none") =>
          (driver = "closed" /\ quits = 1)

====
